---- MODULE Spec2Model ----
(***************************************************************************)
(* A model of nvim-rs: the binding generator (api_gen) and the runtime     *)
(* marshalling / typed call layer (nvim_client_api).                       *)
(*                                                                         *)
(* Text is modelled as sequences of one-character strings, so that         *)
(* starts_with, find, slicing and trim are computed as the code computes   *)
(* them.                                                                   *)
(***************************************************************************)
EXTENDS Integers, Sequences, FiniteSets, TLC

VARIABLES
    \* ---- ValueMarshaller (one encode / decode of one value) ----
    m_pc,       \* "encode" | "decode" | "done" | "off"
    m_ty,       \* the Rust type the value is converted against
    m_x,        \* the typed value handed to into_value, when there is one
    m_v,        \* the rmpv Value on the wire
    m_res,      \* result of from_value (NoVal until decoded)
    \* ---- TypedRpcInvoker (stub invocations on one connection) ----
    r_conn,     \* "open" | "closed": the transport under the RpcClient
    r_requests, \* every client.request(..) issued, in order
    r_calls,    \* the futures the stubs returned, by invocation
    \* ---- api_gen (runs of do_main on one API description) ----
    g_pc,       \* position in do_main, or how the run ended
    g_desc,     \* the API description in the API_SPEC file
    g_api,      \* the Api deserialized from it
    g_out,      \* the OUT file: whether it exists, and its lines
    g_i,        \* index into api.functions of the loop under way
    g_order,    \* the order this run's iteration of api.types yields
    g_t,        \* index into g_order
    g_prev,     \* what an earlier, completed run on g_desc left in OUT
    \* ---- ApiTypeVisitor (one type name parsed) ----
    p_pc,       \* "parse" | "done" | "off"
    p_value,    \* the type name
    p_result    \* what parse_type returned

mvars == <<m_pc, m_ty, m_x, m_v, m_res>>
rvars == <<r_conn, r_requests, r_calls>>
gvars == <<g_pc, g_desc, g_api, g_out, g_i, g_order, g_t, g_prev>>
pvars == <<p_pc, p_value, p_result>>

vars == <<m_pc, m_ty, m_x, m_v, m_res, r_conn, r_requests, r_calls,
          g_pc, g_desc, g_api, g_out, g_i, g_order, g_t, g_prev,
          p_pc, p_value, p_result>>

----------------------------------------------------------------------------
(* Bounds of the model *)

\* i64 is modelled IntBits wide (two's complement); rmpv's Integer also
\* holds the unsigned values of the same width.
IntBits == 2

\* longest Array / Vec drawn as an input
MaxArrayLen == 3

RECURSIVE Pow2(_)
Pow2(n) == IF n = 0 THEN 1 ELSE 2 * Pow2(n - 1)

I64Min == 0 - Pow2(IntBits - 1)
I64Max == Pow2(IntBits - 1) - 1
U64Max == Pow2(IntBits) - 1

SeqsUpTo(S, n) == UNION {[1..k -> S] : k \in 0..n}

NoVal == [none |-> TRUE]

----------------------------------------------------------------------------
(* rmpv::Value, the dynamic wire value *)

VNil == [tag |-> "Nil"]
VBoolean(b) == [tag |-> "Boolean", b |-> b]
VInteger(i) == [tag |-> "Integer", i |-> i]
VF64 == [tag |-> "F64"]
VString(s) == [tag |-> "String", s |-> s]
VBinary == [tag |-> "Binary"]
VArray(a) == [tag |-> "Array", a |-> a]
VMap(m) == [tag |-> "Map", m |-> m]

\* Value::as_i64: Some(i) for an Integer that fits i64, None otherwise
as_i64(v) ==
    IF v.tag = "Integer" /\ v.i >= I64Min /\ v.i <= I64Max
    THEN [some |-> TRUE, i |-> v.i]
    ELSE [some |-> FALSE]

\* <Utf8String as ToString>::to_string, i.e. rmpv's Display for
\* Utf8String: write!(fmt, "\"{}\"", s) for a valid string.
Utf8String_to_string(s) == <<"\"">> \o s \o <<"\"">>

----------------------------------------------------------------------------
(* Rust types that implement FromValue / IntoValue *)

TUnit == [k |-> "unit"]
TBool == [k |-> "bool"]
TI64 == [k |-> "i64"]
TString == [k |-> "String"]
TValue == [k |-> "Value"]
TMap == [k |-> "Map"]
THandle == [k |-> "Handle"]
TVec(t) == [k |-> "Vec", inner |-> t]
TPair(a, b) == [k |-> "Pair", fst |-> a, snd |-> b]

\* the RpcClient a handle wrapper borrows
TheClient == "client"

Error_UnexpectedReturnType(v) == [kind |-> "UnexpectedReturnType", v |-> v]
Error_NvimReturnedError(v) == [kind |-> "NvimReturnedError", v |-> v]
Error_ConnectionClosed == [kind |-> "ConnectionClosed"]

\* Result<T, Error>; calls counts the element decodes that were started
Ok(x, n) == [ok |-> TRUE, val |-> x, calls |-> n]
Err(e, n) == [ok |-> FALSE, err |-> e, calls |-> n]

RECURSIVE from_value(_, _, _)
RECURSIVE vec_collect(_, _, _, _, _, _)

\* impl_from_value!: match $val_expr { $pat => Ok($ret_expr), _ => Err(..) }
scalar_from_value(v, ty, client) ==
    CASE ty.k = "unit" ->
            IF v.tag = "Nil" THEN Ok(<<>>, 0)
            ELSE Err(Error_UnexpectedReturnType(v), 0)
      [] ty.k = "bool" ->
            IF v.tag = "Boolean" THEN Ok(v.b, 0)
            ELSE Err(Error_UnexpectedReturnType(v), 0)
      [] ty.k = "Value" -> Ok(v, 0)
      [] ty.k = "String" ->
            IF v.tag = "String" THEN Ok(Utf8String_to_string(v.s), 0)
            ELSE Err(Error_UnexpectedReturnType(v), 0)
      [] ty.k = "i64" ->
            IF as_i64(v).some THEN Ok(as_i64(v).i, 0)
            ELSE Err(Error_UnexpectedReturnType(v), 0)
      [] ty.k = "Map" ->
            IF v.tag = "Map" THEN Ok([vec |-> v.m], 0)
            ELSE Err(Error_UnexpectedReturnType(v), 0)

\* nvim_type!: FromValue for a handle wrapper never fails
handle_from_value(data, client) == Ok([client |-> client, data |-> data], 0)

\* a.into_iter().map(|x| Inner::from_value(x, client)).collect::<Result<..>>():
\* elements are decoded in order and the first Err ends the iteration
vec_collect(a, inner, client, i, acc, n) ==
    IF i > Len(a) THEN Ok(acc, n)
    ELSE LET r == from_value(a[i], inner, client) IN
         IF r.ok
         THEN vec_collect(a, inner, client, i + 1, Append(acc, r.val),
                          n + 1 + r.calls)
         ELSE Err(r.err, n + 1 + r.calls)

\* the Vec impl reporting the whole Array when an element fails
vec_from_value_wraps_whole(v, inner, client) ==
    IF v.tag = "Array" /\ vec_collect(v.a, inner, client, 1, <<>>, 0).ok
    THEN vec_collect(v.a, inner, client, 1, <<>>, 0)
    ELSE Err(Error_UnexpectedReturnType(v), 0)

\* impl FromValue for Vec<Inner>
vec_from_value(v, inner, client) ==
    IF v.tag = "Array"
    THEN vec_collect(v.a, inner, client, 1, <<>>, 0)
    ELSE Err(Error_UnexpectedReturnType(v), 0)

\* the pair impl with the arity guard dropped to a.len() >= 2
pair_from_value_noguard(v, A, B, client) ==
    IF v.tag = "Array" /\ Len(v.a) >= 2
    THEN LET x == from_value(v.a[1], A, client) IN
         IF ~x.ok THEN Err(x.err, 1 + x.calls)
         ELSE LET y == from_value(v.a[2], B, client) IN
              IF ~y.ok THEN Err(y.err, 2 + x.calls + y.calls)
              ELSE Ok(<<x.val, y.val>>, 2 + x.calls + y.calls)
    ELSE Err(Error_UnexpectedReturnType(v), 0)

\* impl FromValue for (A, B)
pair_from_value(v, A, B, client) ==
    IF v.tag = "Array" /\ Len(v.a) = 2
    THEN LET x == from_value(v.a[1], A, client) IN
         IF ~x.ok THEN Err(x.err, 1 + x.calls)
         ELSE LET y == from_value(v.a[2], B, client) IN
              IF ~y.ok THEN Err(y.err, 2 + x.calls + y.calls)
              ELSE Ok(<<x.val, y.val>>, 2 + x.calls + y.calls)
    ELSE Err(Error_UnexpectedReturnType(v), 0)

\* FromValue::from_value, dispatched on the target type
from_value(v, ty, client) ==
    CASE ty.k = "Vec" -> vec_from_value(v, ty.inner, client)
      [] ty.k = "Pair" -> pair_from_value(v, ty.fst, ty.snd, client)
      [] ty.k = "Handle" -> handle_from_value(v, client)
      [] OTHER -> scalar_from_value(v, ty, client)

RECURSIVE into_value(_, _)

\* impl_into_value!: self.into(), rmpv's From impls
scalar_into_value(x, ty) ==
    CASE ty.k = "Map" -> VMap(x.vec)
      [] ty.k = "Value" -> x
      [] ty.k = "String" -> VString(x)
      [] ty.k = "bool" -> VBoolean(x)
      [] ty.k = "i64" -> VInteger(x)

\* IntoValue::into_value, dispatched on the source type
into_value(x, ty) ==
    CASE ty.k = "Vec" ->
            VArray([i \in 1..Len(x) |-> into_value(x[i], ty.inner)])
      [] ty.k = "Pair" ->
            VArray(<<into_value(x[1], ty.fst), into_value(x[2], ty.snd)>>)
      [] ty.k = "Handle" -> x.data
      [] OTHER -> scalar_into_value(x, ty)

----------------------------------------------------------------------------
(* ValueMarshaller: inputs *)

ScalarTypes == {TUnit, TBool, TI64, TString, TValue, TMap, THandle}
ElemTypes == {TBool, TI64, TString, TValue}
PairTypes == {TPair(a, b) : a \in ElemTypes, b \in ElemTypes}
VecTypes == {TVec(t) : t \in ElemTypes \cup {TMap, THandle}}
NestedTypes ==
    {TVec(TPair(TI64, TBool)), TVec(TPair(TString, TI64)),
     TPair(TVec(TI64), TI64), TVec(TVec(TI64))}

\* return types a stub may declare
DecodeTypes == ScalarTypes \cup PairTypes \cup VecTypes \cup NestedTypes
\* argument types: the ones with an IntoValue impl, nesting one Vec at most
EncodeTypes == DecodeTypes \ {TUnit, TVec(TVec(TI64))}

BaseValues ==
    {VNil, VBoolean(TRUE), VInteger(0), VInteger(I64Min), VInteger(I64Max + 1),
     VF64, VString(<<"a">>), VBinary, VMap(<<>>)}
ElemValues ==
    {VBoolean(TRUE), VInteger(0), VInteger(I64Max + 1), VString(<<"a">>)}
NestedElemValues ==
    {VInteger(0), VArray(<<VInteger(0)>>), VArray(<<VInteger(0), VInteger(0)>>),
     VArray(<<VInteger(0), VBoolean(TRUE)>>), VArray(<<VF64, VInteger(0)>>)}
WireValues ==
    BaseValues
    \cup {VArray(a) : a \in SeqsUpTo(ElemValues, MaxArrayLen)}
    \cup {VArray(a) : a \in SeqsUpTo(NestedElemValues, 2)}

RECURSIVE TypedValues(_)
TypedValues(ty) ==
    CASE ty.k = "bool" -> BOOLEAN
      [] ty.k = "i64" -> {I64Min, 0, I64Max}
      [] ty.k = "String" -> {<<>>, <<"a">>, <<"a", "b">>}
      [] ty.k = "Value" ->
            {VNil, VInteger(U64Max), VString(<<"a">>), VArray(<<VBoolean(TRUE)>>)}
      [] ty.k = "Map" ->
            {[vec |-> <<>>], [vec |-> << <<VString(<<"a">>), VInteger(0)>> >>]}
      [] ty.k = "Handle" ->
            {[client |-> TheClient, data |-> d] : d \in {VInteger(0), VBinary}}
      [] ty.k = "Vec" -> SeqsUpTo(TypedValues(ty.inner), MaxArrayLen)
      [] ty.k = "Pair" -> TypedValues(ty.fst) \X TypedValues(ty.snd)

----------------------------------------------------------------------------
(* ValueMarshaller: one conversion *)

MarshalOff ==
    /\ m_pc = "off"
    /\ m_ty = TUnit
    /\ m_x = [some |-> FALSE]
    /\ m_v = NoVal
    /\ m_res = NoVal

RpcOff ==
    /\ r_conn = "closed"
    /\ r_requests = <<>>
    /\ r_calls = <<>>

GenOff ==
    /\ g_pc = "off"
    /\ g_desc = NoVal
    /\ g_api = NoVal
    /\ g_out = [exists |-> FALSE, lines |-> <<>>]
    /\ g_i = 0
    /\ g_order = <<>>
    /\ g_t = 0
    /\ g_prev = [some |-> FALSE]

ParseOff ==
    /\ p_pc = "off"
    /\ p_value = <<>>
    /\ p_result = NoVal

InitMarshal ==
    /\ RpcOff
    /\ GenOff
    /\ ParseOff
    /\ m_res = NoVal
    /\ \/ \E ty \in EncodeTypes : \E x \in TypedValues(ty) :
             /\ m_pc = "encode"
             /\ m_ty = ty
             /\ m_x = [some |-> TRUE, x |-> x]
             /\ m_v = NoVal
       \/ \E ty \in DecodeTypes : \E v \in WireValues :
             /\ m_pc = "decode"
             /\ m_ty = ty
             /\ m_x = [some |-> FALSE]
             /\ m_v = v

\* x.into_value()
Encode ==
    /\ m_pc = "encode"
    /\ m_v' = into_value(m_x.x, m_ty)
    /\ m_pc' = "decode"
    /\ UNCHANGED <<m_ty, m_x, m_res>>
    /\ UNCHANGED <<rvars, gvars, pvars>>

\* Ret::from_value(v, client)
Decode ==
    /\ m_pc = "decode"
    /\ m_res' = from_value(m_v, m_ty, TheClient)
    /\ m_pc' = "done"
    /\ UNCHANGED <<m_ty, m_x, m_v>>
    /\ UNCHANGED <<rvars, gvars, pvars>>

NextMarshal == Encode \/ Decode

SpecMarshal == InitMarshal /\ [][NextMarshal]_vars

----------------------------------------------------------------------------
(* What a target type accepts, stated on the shape of the value *)

RECURSIVE Accepts(_, _)
Accepts(v, ty) ==
    CASE ty.k = "unit" -> v = VNil
      [] ty.k = "bool" -> v.tag = "Boolean"
      [] ty.k = "i64" -> v.tag = "Integer" /\ v.i \in I64Min..I64Max
      [] ty.k = "String" -> v.tag = "String"
      [] ty.k = "Map" -> v.tag = "Map"
      [] ty.k = "Value" -> TRUE
      [] ty.k = "Handle" -> TRUE
      [] ty.k = "Vec" ->
            v.tag = "Array" /\ \A i \in 1..Len(v.a) : Accepts(v.a[i], ty.inner)
      [] ty.k = "Pair" ->
            /\ v.tag = "Array"
            /\ Len(v.a) = 2
            /\ Accepts(v.a[1], ty.fst)
            /\ Accepts(v.a[2], ty.snd)

\* The value a failed decode points at: the value itself when its own shape
\* is wrong, else what the first rejected element points at.
RECURSIVE Offender(_, _)
Offender(v, ty) ==
    CASE ty.k = "Vec" /\ v.tag = "Array" ->
            LET bad == {i \in 1..Len(v.a) : ~Accepts(v.a[i], ty.inner)}
                first == CHOOSE i \in bad : \A j \in bad : i <= j
            IN Offender(v.a[first], ty.inner)
      [] ty.k = "Pair" /\ v.tag = "Array" /\ Len(v.a) = 2 ->
            IF ~Accepts(v.a[1], ty.fst)
            THEN Offender(v.a[1], ty.fst)
            ELSE Offender(v.a[2], ty.snd)
      [] OTHER -> v

----------------------------------------------------------------------------
(* Claims on the ValueMarshaller *)

\* C4: round-trip law: decoding the encoding of a typed value x against x's
\* own type succeeds and returns x.
C4_RoundTrip ==
    (m_pc = "done" /\ m_x.some) => (m_res.ok /\ m_res.val = m_x.x)

\* C5: an Array of length n # 2 decoded against a pair type fails with
\* UnexpectedReturnType of the Array and decodes no element; an Array whose
\* elements the element type accepts decodes against Vec to n elements, the
\* i-th one being the decoding of the i-th element.
C5_PairArityVecLength ==
    (m_pc = "done" /\ m_v.tag = "Array") =>
        /\ (m_ty.k = "Pair" /\ Len(m_v.a) # 2) =>
              m_res = Err(Error_UnexpectedReturnType(m_v), 0)
        /\ (m_ty.k = "Vec" /\ \A i \in 1..Len(m_v.a) : Accepts(m_v.a[i], m_ty.inner)) =>
              /\ m_res.ok
              /\ Len(m_res.val) = Len(m_v.a)
              /\ \A i \in 1..Len(m_v.a) :
                    m_res.val[i] = from_value(m_v.a[i], m_ty.inner, TheClient).val

\* an Array of length 3 was decoded against a pair type and rejected
C5_Witness ==
    /\ m_pc = "done"
    /\ m_ty.k = "Pair"
    /\ m_v.tag = "Array"
    /\ Len(m_v.a) = 3
    /\ ~m_res.ok

----------------------------------------------------------------------------
(* TypedRpcInvoker: the stubs the macros expand to *)

\* most stub invocations modelled on the one connection
MaxCalls == 2

\* Result<Value, Value>, what rmp_rpc's Response resolves to
RetOk(v) == [ok |-> TRUE, val |-> v]
RetErr(e) == [ok |-> FALSE, err |-> e]

\* convert_ret with the two arms answering alike: the error value is decoded
convert_ret_decodes_error(nvim_ret, ty, client) ==
    IF nvim_ret.ok
    THEN from_value(nvim_ret.val, ty, client)
    ELSE from_value(nvim_ret.err, ty, client)

\* fn convert_ret
convert_ret(nvim_ret, ty, client) ==
    IF nvim_ret.ok
    THEN from_value(nvim_ret.val, ty, client)
    ELSE Err(Error_NvimReturnedError(nvim_ret.err), 0)

\* $( $arg_name.into_value() ),*
encode_args(args, arg_tys) ==
    [i \in 1..Len(args) |-> into_value(args[i], arg_tys[i])]

\* the method macro sending the request a second time
nvim_api_method_twice(stub, self, args) ==
    LET req == [method |-> stub.nvim_fn_name,
                params |-> <<self.data>> \o encode_args(args, stub.arg_tys)]
    IN <<req, req>>

\* nvim_api_method!: self.client.request($nvim_fn_name,
\*     &[ self.data.clone(), $( $arg_name.into_value() ),* ])
nvim_api_method(stub, self, args) ==
    << [method |-> stub.nvim_fn_name,
        params |-> <<self.data>> \o encode_args(args, stub.arg_tys)] >>

\* nvim_api_function!: self.client.request($nvim_fn_name,
\*     &[ $( $arg_name.into_value() ),* ])
nvim_api_function(stub, self, args) ==
    << [method |-> stub.nvim_fn_name,
        params |-> encode_args(args, stub.arg_tys)] >>

\* .map_err(|_e| Error::ConnectionClosed).and_then(move |v| convert_ret(v, ..))
\* applied to what the Response future resolved to
complete(resp, ty, client) ==
    IF resp.transport_ok
    THEN convert_ret(resp.ret, ty, client)
    ELSE Err(Error_ConnectionClosed, 0)

Stub(m, name, args, ret) ==
    [macro |-> m, nvim_fn_name |-> name, arg_tys |-> args, ret_ty |-> ret]

\* stubs as the generator emits them (nvim_client calls eval)
Stubs ==
    {Stub("nvim_api_function", "nvim_eval", <<TString>>, TValue),
     Stub("nvim_api_function", "nvim_get_current_buf", <<>>, THandle),
     Stub("nvim_api_function", "nvim_command", <<TString>>, TUnit),
     Stub("nvim_api_method", "nvim_buf_line_count", <<>>, TI64),
     Stub("nvim_api_method", "nvim_win_get_cursor", <<>>, TPair(TI64, TI64)),
     Stub("nvim_api_method", "nvim_buf_get_lines", <<TI64, TBool>>, TVec(TString)),
     Stub("nvim_api_method", "nvim_buf_get_marks", <<>>, TVec(TPair(TI64, TI64)))}

Receivers == {[client |-> TheClient, data |-> VInteger(1)]}
NoReceiver == [client |-> TheClient, data |-> VNil]

ArgValues(ty) ==
    CASE ty.k = "String" -> {<<"a">>}
      [] ty.k = "i64" -> {0, I64Max}
      [] ty.k = "bool" -> {TRUE}

RECURSIVE ArgLists(_)
ArgLists(tys) ==
    IF tys = <<>> THEN {<<>>}
    ELSE {<<x>> \o rest : x \in ArgValues(Head(tys)), rest \in ArgLists(Tail(tys))}

OkValues ==
    {VNil, VInteger(0), VInteger(I64Max + 1), VString(<<"a">>),
     VArray(<<VInteger(0), VInteger(0)>>),
     VArray(<<VInteger(0), VString(<<"a">>)>>),
     VArray(<<VInteger(0), VInteger(0), VInteger(0)>>),
     VArray(<<VArray(<<VInteger(0), VInteger(0)>>),
              VArray(<<VInteger(0), VBoolean(TRUE)>>)>>)}
ErrValues ==
    {VInteger(0), VString(<<"a">>), VArray(<<VInteger(0), VString(<<"a">>)>>)}

InitRpc ==
    /\ MarshalOff
    /\ GenOff
    /\ ParseOff
    /\ r_conn = "open"
    /\ r_requests = <<>>
    /\ r_calls = <<>>

\* a caller invokes a stub: the macro body runs, the future is returned
Invoke ==
    /\ Len(r_calls) < MaxCalls
    /\ \E stub \in Stubs : \E args \in ArgLists(stub.arg_tys) :
       \E self \in (IF stub.macro = "nvim_api_method" THEN Receivers ELSE {NoReceiver}) :
          LET id == Len(r_calls) + 1
              reqs == IF stub.macro = "nvim_api_method"
                      THEN nvim_api_method(stub, self, args)
                      ELSE nvim_api_function(stub, self, args)
          IN /\ r_requests' = r_requests \o
                    [i \in 1..Len(reqs) |->
                        [id |-> id, method |-> reqs[i].method, params |-> reqs[i].params]]
             /\ r_calls' = Append(r_calls,
                    [stub |-> stub, self |-> self, args |-> args,
                     st |-> "pending", resp |-> NoVal, result |-> NoVal])
    /\ UNCHANGED <<r_conn>>
    /\ UNCHANGED <<mvars, gvars, pvars>>

Resolve(c, resp) ==
    r_calls' = [r_calls EXCEPT ![c] =
        [@ EXCEPT !.st = "done",
                  !.resp = resp,
                  !.result = complete(resp, r_calls[c].stub.ret_ty,
                                      r_calls[c].self.client)]]

\* the response to call c arrives with a success value
RespondOk ==
    /\ r_conn = "open"
    /\ \E c \in 1..Len(r_calls) : \E v \in OkValues :
          /\ r_calls[c].st = "pending"
          /\ Resolve(c, [transport_ok |-> TRUE, ret |-> RetOk(v)])
    /\ UNCHANGED <<r_conn, r_requests>>
    /\ UNCHANGED <<mvars, gvars, pvars>>

\* the response to call c arrives with an application-level error value
RespondErr ==
    /\ r_conn = "open"
    /\ \E c \in 1..Len(r_calls) : \E e \in ErrValues :
          /\ r_calls[c].st = "pending"
          /\ Resolve(c, [transport_ok |-> TRUE, ret |-> RetErr(e)])
    /\ UNCHANGED <<r_conn, r_requests>>
    /\ UNCHANGED <<mvars, gvars, pvars>>

\* the transport is severed
ConnectionLost ==
    /\ r_conn = "open"
    /\ r_conn' = "closed"
    /\ UNCHANGED <<r_requests, r_calls>>
    /\ UNCHANGED <<mvars, gvars, pvars>>

\* a pending Response resolves to the transport's error
TransportFail ==
    /\ r_conn = "closed"
    /\ \E c \in 1..Len(r_calls) :
          /\ r_calls[c].st = "pending"
          /\ Resolve(c, [transport_ok |-> FALSE])
    /\ UNCHANGED <<r_conn, r_requests>>
    /\ UNCHANGED <<mvars, gvars, pvars>>

\* the caller drops the future before it completes
Abandon ==
    /\ \E c \in 1..Len(r_calls) :
          /\ r_calls[c].st = "pending"
          /\ r_calls' = [r_calls EXCEPT ![c].st = "dropped"]
    /\ UNCHANGED <<r_conn, r_requests>>
    /\ UNCHANGED <<mvars, gvars, pvars>>

NextRpc ==
    \/ Invoke
    \/ RespondOk
    \/ RespondErr
    \/ ConnectionLost
    \/ TransportFail
    \/ Abandon

SpecRpc == InitRpc /\ [][NextRpc]_vars

----------------------------------------------------------------------------
(* Claims on the TypedRpcInvoker *)

Done(c) == r_calls[c].st = "done"
GotErr(c) == Done(c) /\ r_calls[c].resp.transport_ok /\ ~r_calls[c].resp.ret.ok
GotOk(c) == Done(c) /\ r_calls[c].resp.transport_ok /\ r_calls[c].resp.ret.ok

\* C2: a call whose response is an application-level error value e completes
\* with NvimReturnedError(e), whatever the return type and whether or not e
\* would decode against it.
C2_ErrorValueVerbatim ==
    \A c \in 1..Len(r_calls) :
        GotErr(c) =>
            /\ ~r_calls[c].result.ok
            /\ r_calls[c].result.err =
                  Error_NvimReturnedError(r_calls[c].resp.ret.err)

\* an error value that the stub's return type would have accepted
C2_Witness ==
    \E c \in 1..Len(r_calls) :
        /\ GotErr(c)
        /\ Accepts(r_calls[c].resp.ret.err, r_calls[c].stub.ret_ty)
        /\ r_calls[c].stub.ret_ty = TI64
        /\ r_calls[c].result.err.kind = "NvimReturnedError"

\* C3 as stated: a success value v that fails to decode completes the call
\* with UnexpectedReturnType(v), v being the raw response, also when the
\* failure is inside a nested element.
C3_WrapsRawResponse ==
    \A c \in 1..Len(r_calls) :
        (GotOk(c) /\ ~Accepts(r_calls[c].resp.ret.val, r_calls[c].stub.ret_ty)) =>
            /\ ~r_calls[c].result.ok
            /\ r_calls[c].result.err =
                  Error_UnexpectedReturnType(r_calls[c].resp.ret.val)

\* C3 amended: a success value v that fails to decode completes the call with
\* UnexpectedReturnType(w): w is v when v's own shape is wrong (tag, or pair
\* arity), and is the first offending element, in order and recursively, when
\* the failure is inside an element of an Array.
C3_WrapsOffendingValue ==
    \A c \in 1..Len(r_calls) :
        (GotOk(c) /\ ~Accepts(r_calls[c].resp.ret.val, r_calls[c].stub.ret_ty)) =>
            /\ ~r_calls[c].result.ok
            /\ r_calls[c].result.err =
                  Error_UnexpectedReturnType(
                      Offender(r_calls[c].resp.ret.val, r_calls[c].stub.ret_ty))

\* a decode failure inside an element of the second pair of a Vec of pairs
C3_Witness ==
    \E c \in 1..Len(r_calls) :
        /\ GotOk(c)
        /\ r_calls[c].stub.ret_ty = TVec(TPair(TI64, TI64))
        /\ r_calls[c].resp.ret.val.tag = "Array"
        /\ ~Accepts(r_calls[c].resp.ret.val, r_calls[c].stub.ret_ty)
        /\ r_calls[c].result.err = Error_UnexpectedReturnType(VBoolean(TRUE))

RequestsOf(c) == SelectSeq(r_requests, LAMBDA q : q.id = c)

ReceiverArgs(c) ==
    IF r_calls[c].stub.macro = "nvim_api_method"
    THEN <<r_calls[c].self.data>>
    ELSE <<>>

\* C9 (state part): every invocation, pending, abandoned or completed with
\* any outcome, has issued exactly one request: full procedure name,
\* receiver's wire value first for a method, then the encoded arguments in
\* declaration order.
OneRequestPerCall ==
    \A c \in 1..Len(r_calls) :
        LET qs == RequestsOf(c)
            off == Len(ReceiverArgs(c))
        IN /\ Len(qs) = 1
           /\ qs[1].method = r_calls[c].stub.nvim_fn_name
           /\ Len(qs[1].params) = off + Len(r_calls[c].args)
           /\ SubSeq(qs[1].params, 1, off) = ReceiverArgs(c)
           /\ \A i \in 1..Len(r_calls[c].args) :
                 qs[1].params[off + i] =
                    into_value(r_calls[c].args[i], r_calls[c].stub.arg_tys[i])

\* C9 (step part): a completed call stays as it completed (ConnectionClosed
\* included) and no step adds a request for an existing invocation.
CompletionIsTerminal ==
    \A c \in 1..Len(r_calls) :
        /\ Done(c) => r_calls'[c] = r_calls[c]
        /\ SelectSeq(r_requests', LAMBDA q : q.id = c) = RequestsOf(c)

\* C9: every stub invocation issues exactly one request, addressed by the
\* full procedure name with the encoded arguments in order (receiver first
\* for methods); no outcome issues a second one; ConnectionClosed is terminal.
C9_ExactlyOneRequest == []OneRequestPerCall /\ [][CompletionIsTerminal]_vars

\* one call ended ConnectionClosed, another is a method call with arguments
C9_Witness ==
    /\ Len(r_calls) = 2
    /\ Len(r_requests) = 2
    /\ \E c \in 1..2 :
          /\ Done(c)
          /\ r_calls[c].result = Err(Error_ConnectionClosed, 0)
    /\ \E c \in 1..2 :
          /\ r_calls[c].stub.macro = "nvim_api_method"
          /\ Len(r_calls[c].args) = 2

----------------------------------------------------------------------------
(* api_gen: the type-name grammar (ApiTypeVisitor) *)

\* text literals of api.rs and main.rs, as character sequences
Str_void == <<"v", "o", "i", "d">>
Str_Nil == <<"N", "i", "l">>
Str_Boolean == <<"B", "o", "o", "l", "e", "a", "n">>
Str_Integer == <<"I", "n", "t", "e", "g", "e", "r">>
Str_Float == <<"F", "l", "o", "a", "t">>
Str_String == <<"S", "t", "r", "i", "n", "g">>
Str_Array == <<"A", "r", "r", "a", "y">>
Str_Dictionary == <<"D", "i", "c", "t", "i", "o", "n", "a", "r", "y">>
Str_Buffer == <<"B", "u", "f", "f", "e", "r">>
Str_Window == <<"W", "i", "n", "d", "o", "w">>
Str_Tabpage == <<"T", "a", "b", "p", "a", "g", "e">>
Str_Object == <<"O", "b", "j", "e", "c", "t">>
Str_ArrayOf == <<"A", "r", "r", "a", "y", "O", "f">>
Str_nvim_ == <<"n", "v", "i", "m", "_">>

\* enum ApiType
Prim(name) == [t |-> name]
ArrayOf(ty) == [t |-> "ArrayOf", elem |-> ty]
ArrayOfLength(ty, num) == [t |-> "ArrayOfLength", elem |-> ty, num |-> num]

\* Result<ApiType, E>, E::unknown_variant(value, ..) carrying value; Panic is
\* the thread unwinding out of the parser
ParseOk(ty) == [r |-> "Ok", ty |-> ty]
UnknownType(value) == [r |-> "Err", unknown |-> value]
Panic == [r |-> "Panic"]

\* str::starts_with
starts_with(s, prefix) ==
    Len(s) >= Len(prefix) /\ SubSeq(s, 1, Len(prefix)) = prefix

\* str::find(char) / str::rfind(char): byte offset from 0, or None
find(s, ch) ==
    LET hits == {i \in 1..Len(s) : s[i] = ch}
    IN IF hits = {} THEN [some |-> FALSE]
       ELSE [some |-> TRUE, at |-> (CHOOSE i \in hits : \A j \in hits : i <= j) - 1]

rfind(s, ch) ==
    LET hits == {i \in 1..Len(s) : s[i] = ch}
    IN IF hits = {} THEN [some |-> FALSE]
       ELSE [some |-> TRUE, at |-> (CHOOSE i \in hits : \A j \in hits : i >= j) - 1]

\* &s[from..to], offsets from 0, to exclusive (from <= to <= len)
slice(s, from, to) == SubSeq(s, from + 1, to)

IsWhitespace(ch) == ch = " "

\* str::trim
RECURSIVE trim_start(_)
trim_start(s) ==
    IF s # <<>> /\ IsWhitespace(Head(s)) THEN trim_start(Tail(s)) ELSE s

RECURSIVE trim_end(_)
trim_end(s) ==
    IF s # <<>> /\ IsWhitespace(s[Len(s)])
    THEN trim_end(SubSeq(s, 1, Len(s) - 1))
    ELSE s

trim(s) == trim_end(trim_start(s))

Digits == {"0", "1", "2", "3", "4", "5", "6", "7", "8", "9"}
DigitValue(ch) ==
    CASE ch = "0" -> 0 [] ch = "1" -> 1 [] ch = "2" -> 2 [] ch = "3" -> 3
      [] ch = "4" -> 4 [] ch = "5" -> 5 [] ch = "6" -> 6 [] ch = "7" -> 7
      [] ch = "8" -> 8 [] ch = "9" -> 9

RECURSIVE DecimalValue(_, _)
DecimalValue(s, acc) ==
    IF s = <<>> THEN acc
    ELSE DecimalValue(Tail(s), 10 * acc + DigitValue(Head(s)))

\* str::parse::<i64>: an optional sign, then one digit or more. The numerals
\* drawn below are short, so the overflow error of a numeral beyond i64 does
\* not arise.
parse_i64(s) ==
    LET signed == s # <<>> /\ Head(s) \in {"+", "-"}
        digits == IF signed THEN Tail(s) ELSE s
    IN IF digits = <<>> \/ \E i \in 1..Len(digits) : digits[i] \notin Digits
       THEN [ok |-> FALSE]
       ELSE [ok |-> TRUE,
             n |-> IF signed /\ Head(s) = "-"
                   THEN 0 - DecimalValue(digits, 0)
                   ELSE DecimalValue(digits, 0)]

\* ApiTypeVisitor::parse_primitive_type
parse_primitive_type(value) ==
    CASE value = Str_void -> ParseOk(Prim("Nil"))
      [] value = Str_Nil -> ParseOk(Prim("Nil"))
      [] value = Str_Boolean -> ParseOk(Prim("Boolean"))
      [] value = Str_Integer -> ParseOk(Prim("Integer"))
      [] value = Str_Float -> ParseOk(Prim("Float"))
      [] value = Str_String -> ParseOk(Prim("String"))
      [] value = Str_Array -> ParseOk(Prim("Array"))
      [] value = Str_Dictionary -> ParseOk(Prim("Dictionary"))
      [] value = Str_Buffer -> ParseOk(Prim("Buffer"))
      [] value = Str_Window -> ParseOk(Prim("Window"))
      [] value = Str_Tabpage -> ParseOk(Prim("Tabpage"))
      [] value = Str_Object -> ParseOk(Prim("Object"))
      [] OTHER -> UnknownType(value)

\* ApiTypeVisitor::parse_type
parse_type(value) ==
    IF starts_with(value, Str_ArrayOf)
    THEN LET open == find(value, "(")
             close == rfind(value, ")")
         IN IF ~open.some THEN UnknownType(value)
            ELSE IF ~close.some THEN UnknownType(value)
            ELSE IF open.at + 1 > close.at THEN Panic
            ELSE LET args == slice(value, open.at + 1, close.at)
                     comma == find(args, ",")
                 IN IF comma.some
                    THEN LET ty == parse_primitive_type(
                                       trim(slice(args, 0, comma.at)))
                             num == parse_i64(
                                       trim(slice(args, comma.at + 1, Len(args))))
                         IN IF ty.r # "Ok" THEN ty
                            ELSE IF ~num.ok THEN UnknownType(value)
                            ELSE ParseOk(ArrayOfLength(ty.ty, num.n))
                    ELSE LET ty == parse_primitive_type(trim(args))
                         IN IF ty.r # "Ok" THEN ty
                            ELSE ParseOk(ArrayOf(ty.ty))
    ELSE parse_primitive_type(value)

----------------------------------------------------------------------------
(* api_gen: the type algebra and the emitter's per-function text *)

RECURSIVE repeat_join(_, _)
\* std::iter::repeat(ty_str).take(n).format(", ")
repeat_join(ty_str, n) ==
    IF n = 0 THEN ""
    ELSE IF n = 1 THEN ty_str
    ELSE ty_str \o ", " \o repeat_join(ty_str, n - 1)

RECURSIVE rust_owned_name(_)
\* ApiType::rust_owned_name. A negative num cast `as usize` asks for about
\* 2^64 copies; the descriptions drawn below carry no negative length.
rust_owned_name(ty) ==
    CASE ty.t = "Nil" -> "()"
      [] ty.t = "Boolean" -> "bool"
      [] ty.t = "Integer" -> "i64"
      [] ty.t = "Float" -> "f64"
      [] ty.t = "String" -> "String"
      [] ty.t = "Array" -> "Vec<Value>"
      [] ty.t = "ArrayOf" -> "Vec<" \o rust_owned_name(ty.elem) \o ">"
      [] ty.t = "ArrayOfLength" ->
            "(" \o repeat_join(rust_owned_name(ty.elem), ty.num) \o ")"
      [] ty.t = "Dictionary" -> "Map"
      [] ty.t = "Object" -> "Value"
      [] ty.t = "Buffer" -> "Buffer<'client>"
      [] ty.t = "Window" -> "Window<'client>"
      [] ty.t = "Tabpage" -> "Tabpage<'client>"

\* rust_fn_name stripping the global prefix whatever prefix it is given
rust_fn_name_global(f, prefix) ==
    IF starts_with(f.name, Str_nvim_)
    THEN [ok |-> TRUE, name |-> SubSeq(f.name, Len(Str_nvim_) + 1, Len(f.name))]
    ELSE [ok |-> FALSE]

\* ApiFunction::rust_fn_name: assert!(self.name.starts_with(prefix)), then
\* self.name[prefix.len()..]
rust_fn_name(f, prefix) ==
    IF starts_with(f.name, prefix)
    THEN [ok |-> TRUE, name |-> SubSeq(f.name, Len(prefix) + 1, Len(f.name))]
    ELSE [ok |-> FALSE]

\* ApiFunction::macro_call: the text of one declaration, or the assert's panic
macro_call(f, fn_prefix) ==
    LET num_to_skip == IF f.method THEN 1 ELSE 0
        macro_name == IF f.method THEN "nvim_api_method" ELSE "nvim_api_function"
        kept == SubSeq(f.parameters, num_to_skip + 1, Len(f.parameters))
        param_strings == [i \in 1..Len(kept) |->
                             [name |-> kept[i].name,
                              ty |-> rust_owned_name(kept[i].ty)]]
        fn_name == rust_fn_name(f, fn_prefix)
    IN IF ~fn_name.ok THEN [ok |-> FALSE]
       ELSE [ok |-> TRUE,
             line |-> [k |-> "call",
                       macro_name |-> macro_name,
                       fn_name |-> fn_name.name,
                       nvim_fn_name |-> f.name,
                       params |-> param_strings,
                       ret_ty |-> rust_owned_name(f.return_type)]]

\* main.rs: f.deprecated_since.is_none() && !f.method
is_free_function(f) == ~f.deprecated_since.some /\ ~f.method

\* the method filter letting deprecated functions through
is_method_of_ignoring_deprecation(f, decl) ==
    f.method /\ starts_with(f.name, decl.prefix)

\* main.rs: f.deprecated_since.is_none() && f.method
\*          && f.name.starts_with(decl.prefix)
is_method_of(f, decl) ==
    ~f.deprecated_since.some /\ f.method /\ starts_with(f.name, decl.prefix)

----------------------------------------------------------------------------
(* api_gen: the API descriptions given to the tool *)

\* most functions in a description
MaxFns == 2
\* most declared handle types in a description
MaxTypes == 2

Str_Frobnicate == <<"F", "r", "o", "b", "n", "i", "c", "a", "t", "e">>
Str_ArrayOf_Integer_2 == <<"A", "r", "r", "a", "y", "O", "f", "(", "I", "n", "t", "e", "g", "e", "r", ",", " ", "2", ")">>
Str_nvim_buf_ == <<"n", "v", "i", "m", "_", "b", "u", "f", "_">>
Str_nvim_win_ == <<"n", "v", "i", "m", "_", "w", "i", "n", "_">>

Param(ty, name) == [ty |-> ty, name |-> name]
None == [some |-> FALSE]
Some(x) == [some |-> TRUE, v |-> x]
Function(name, params, ret, method, deprecated_since) ==
    [name |-> name, parameters |-> params, return_type |-> ret,
     method |-> method, deprecated_since |-> deprecated_since]

\* functions as `nvim --api-info` lists them, type names still unparsed
FnPool ==
    {Function(<<"n", "v", "i", "m", "_", "e", "v", "a", "l">>,
              <<Param(Str_String, "expr")>>, Str_Object, FALSE, None),
     Function(<<"n", "v", "i", "m", "_", "b", "u", "f", "_", "g", "e", "t", "_", "n", "a", "m", "e">>,
              <<Param(Str_Buffer, "buffer")>>, Str_String, TRUE, None),
     Function(<<"n", "v", "i", "m", "_", "b", "u", "f", "_", "s", "e", "t", "_", "n", "a", "m", "e">>,
              <<Param(Str_Buffer, "buffer"), Param(Str_String, "name")>>,
              Str_void, TRUE, None),
     Function(<<"n", "v", "i", "m", "_", "w", "i", "n", "_", "g", "e", "t", "_", "c", "u", "r", "s", "o", "r">>,
              <<Param(Str_Window, "window")>>, Str_ArrayOf_Integer_2, TRUE, None),
     Function(<<"n", "v", "i", "m", "_", "b", "u", "f", "_", "g", "e", "t", "_", "n", "u", "m", "b", "e", "r">>,
              <<Param(Str_Buffer, "buffer")>>, Str_Integer, TRUE, Some(2)),
     Function(<<"v", "i", "m", "_", "e", "v", "a", "l">>,
              <<Param(Str_String, "str")>>, Str_Object, FALSE, Some(1)),
     Function(<<"v", "i", "m", "_", "g", "e", "t", "_", "m", "o", "d", "e">>,
              <<>>, Str_Dictionary, FALSE, None),
     Function(<<"n", "v", "i", "m", "_", "t", "a", "b", "p", "a", "g", "e", "_", "g", "e", "t", "_", "w", "i", "n">>,
              <<Param(Str_Tabpage, "tabpage")>>, Str_Window, TRUE, None),
     Function(<<"n", "v", "i", "m", "_", "f", "r", "o", "b">>,
              <<Param(Str_Integer, "n")>>, Str_Frobnicate, FALSE, None)}

\* handle type declarations: two of them share a prefix, one has a prefix
\* that is a prefix of the others'
DeclPool ==
    {[name |-> "Buffer", prefix |-> Str_nvim_buf_],
     [name |-> "Window", prefix |-> Str_nvim_win_],
     [name |-> "Buf2", prefix |-> Str_nvim_buf_],
     [name |-> "Any", prefix |-> Str_nvim_]}

UiEventPool ==
    {<<>>,
     <<[name |-> "resize", parameters |-> <<Param(Str_Integer, "rows")>>]>>,
     <<[name |-> "frob", parameters |-> <<Param(Str_Frobnicate, "x")>>]>>}

Injective(q) == \A i, j \in 1..Len(q) : q[i] = q[j] => i = j

\* function lists without repetition (the API names each function once)
FnLists == {q \in SeqsUpTo(FnPool, MaxFns) : Injective(q)}
\* the types mapping: handle-type name -> ApiTypeDecl, as a set of entries
TypeMaps == {m \in SUBSET DeclPool : Cardinality(m) <= MaxTypes}

Descriptions ==
    {[functions |-> fs, ui_events |-> ev, types |-> tm] :
        fs \in FnLists, ev \in UiEventPool, tm \in TypeMaps}

\* iteration orders of a HashMap: any order of its entries
Orders(m) ==
    {q \in [1..Cardinality(m) -> m] : Injective(q)}

----------------------------------------------------------------------------
(* api_gen: do_main *)

\* every type name of the description, in document order
RECURSIVE TypeNamesOf(_)
TypeNamesOf(items) ==
    IF items = <<>> THEN <<>>
    ELSE LET it == Head(items)
             own == [i \in 1..Len(it.parameters) |-> it.parameters[i].ty]
                    \o (IF "return_type" \in DOMAIN it
                        THEN <<it.return_type>> ELSE <<>>)
         IN own \o TypeNamesOf(Tail(items))

ParseParams(ps) == [i \in 1..Len(ps) |-> Param(parse_type(ps[i].ty).ty, ps[i].name)]

\* rmp_serde::from_slice::<Api>: every type name goes through parse_type (the
\* ui_events' too); the first one that fails fails the whole value
deserialize_api(desc) ==
    LET names == TypeNamesOf(desc.functions) \o TypeNamesOf(desc.ui_events)
        bad == {i \in 1..Len(names) : parse_type(names[i]).r # "Ok"}
    IN IF bad # {}
       THEN parse_type(names[CHOOSE i \in bad : \A j \in bad : i <= j])
       ELSE [r |-> "Ok",
             api |-> [functions |->
                         [i \in 1..Len(desc.functions) |->
                            LET f == desc.functions[i]
                            IN Function(f.name, ParseParams(f.parameters),
                                        parse_type(f.return_type).ty,
                                        f.method, f.deprecated_since)],
                      types |-> desc.types]]

Text(str) == [k |-> "text", s |-> str]
Write(ls) == g_out' = [g_out EXCEPT !.lines = @ \o ls]

InitGen ==
    /\ MarshalOff
    /\ RpcOff
    /\ ParseOff
    /\ g_pc = "start"
    /\ g_desc \in Descriptions
    /\ g_api = NoVal
    /\ g_out = [exists |-> FALSE, lines |-> <<>>]
    /\ g_i = 0
    /\ g_order = <<>>
    /\ g_t = 0
    /\ g_prev = [some |-> FALSE]

\* main.rs 33-37: read API_SPEC and deserialize it; `?` returns the error
ReadAndParse ==
    /\ g_pc = "start"
    /\ LET r == deserialize_api(g_desc)
       IN IF r.r = "Ok"
          THEN g_api' = r.api /\ g_pc' = "create"
          ELSE /\ g_api' = NoVal
               /\ g_pc' = IF r.r = "Err" THEN "failed" ELSE "panicked"
    /\ UNCHANGED <<g_desc, g_out, g_i, g_order, g_t, g_prev>>
    /\ UNCHANGED <<mvars, rvars, pvars>>

\* main.rs 38: File::create creates OUT, or truncates it
CreateOut ==
    /\ g_pc = "create"
    /\ g_out' = [exists |-> TRUE, lines |-> <<>>]
    /\ g_pc' = "header"
    /\ UNCHANGED <<g_desc, g_api, g_i, g_order, g_t, g_prev>>
    /\ UNCHANGED <<mvars, rvars, pvars>>

\* main.rs 40-44
WriteHeader ==
    /\ g_pc = "header"
    /\ Write(<<Text("use futures::Future;"), Text("use rmp_rpc::Value;"),
               Text("use super::*;"),
               [k |-> "impl", name |-> "NvimClient"]>>)
    /\ g_i' = 1
    /\ g_pc' = "free"
    /\ UNCHANGED <<g_desc, g_api, g_order, g_t, g_prev>>
    /\ UNCHANGED <<mvars, rvars, pvars>>

\* main.rs 45-49, one function of the loop
EmitFree ==
    /\ g_pc = "free"
    /\ g_i <= Len(g_api.functions)
    /\ LET f == g_api.functions[g_i]
           call == macro_call(f, Str_nvim_)
       IN IF ~is_free_function(f)
          THEN UNCHANGED <<g_out, g_pc>> /\ g_i' = g_i + 1
          ELSE IF call.ok
          THEN Write(<<call.line>>) /\ g_i' = g_i + 1 /\ UNCHANGED g_pc
          ELSE g_pc' = "panicked" /\ UNCHANGED <<g_out, g_i>>
    /\ UNCHANGED <<g_desc, g_api, g_order, g_t, g_prev>>
    /\ UNCHANGED <<mvars, rvars, pvars>>

\* main.rs 50-52: close the block and start iterating the HashMap
CloseFree ==
    /\ g_pc = "free"
    /\ g_i > Len(g_api.functions)
    /\ Write(<<[k |-> "close"]>>)
    /\ g_order' \in Orders(g_api.types)
    /\ g_t' = 1
    /\ g_pc' = "types"
    /\ UNCHANGED <<g_desc, g_api, g_i, g_prev>>
    /\ UNCHANGED <<mvars, rvars, pvars>>

\* main.rs 52-54
OpenType ==
    /\ g_pc = "types"
    /\ g_t <= Len(g_order)
    /\ Write(<<[k |-> "nvim_type", name |-> g_order[g_t].name],
               [k |-> "impl", name |-> g_order[g_t].name]>>)
    /\ g_i' = 1
    /\ g_pc' = "methods"
    /\ UNCHANGED <<g_desc, g_api, g_order, g_t, g_prev>>
    /\ UNCHANGED <<mvars, rvars, pvars>>

\* main.rs 56-60, one function of the loop
EmitMethod ==
    /\ g_pc = "methods"
    /\ g_i <= Len(g_api.functions)
    /\ LET f == g_api.functions[g_i]
           decl == g_order[g_t]
           call == macro_call(f, decl.prefix)
       IN IF ~is_method_of(f, decl)
          THEN UNCHANGED <<g_out, g_pc>> /\ g_i' = g_i + 1
          ELSE IF call.ok
          THEN Write(<<call.line>>) /\ g_i' = g_i + 1 /\ UNCHANGED g_pc
          ELSE g_pc' = "panicked" /\ UNCHANGED <<g_out, g_i>>
    /\ UNCHANGED <<g_desc, g_api, g_order, g_t, g_prev>>
    /\ UNCHANGED <<mvars, rvars, pvars>>

\* main.rs 62-63
CloseType ==
    /\ g_pc = "methods"
    /\ g_i > Len(g_api.functions)
    /\ Write(<<[k |-> "close"]>>)
    /\ g_t' = g_t + 1
    /\ g_pc' = "types"
    /\ UNCHANGED <<g_desc, g_api, g_i, g_order, g_prev>>
    /\ UNCHANGED <<mvars, rvars, pvars>>

\* main.rs 65: Ok(())
Finish ==
    /\ g_pc = "types"
    /\ g_t > Len(g_order)
    /\ g_pc' = "done"
    /\ UNCHANGED <<g_desc, g_api, g_out, g_i, g_order, g_t, g_prev>>
    /\ UNCHANGED <<mvars, rvars, pvars>>

\* the tool is run a second time on the same API_SPEC and OUT
Rerun ==
    /\ g_pc = "done"
    /\ ~g_prev.some
    /\ g_prev' = [some |-> TRUE, lines |-> g_out.lines]
    /\ g_pc' = "start"
    /\ g_api' = NoVal
    /\ g_i' = 0
    /\ g_order' = <<>>
    /\ g_t' = 0
    /\ UNCHANGED <<g_desc, g_out>>
    /\ UNCHANGED <<mvars, rvars, pvars>>

NextGen ==
    \/ ReadAndParse
    \/ CreateOut
    \/ WriteHeader
    \/ EmitFree
    \/ CloseFree
    \/ OpenType
    \/ EmitMethod
    \/ CloseType
    \/ Finish
    \/ Rerun

SpecGen == InitGen /\ [][NextGen]_vars

----------------------------------------------------------------------------
(* ApiTypeVisitor: one type name parsed *)

\* type names drawn: head gap ( type , length ) tail, each part possibly
\* absent or malformed
HeadParts == {<<>>, Str_ArrayOf, Str_Array, Str_Integer, Str_void, Str_Frobnicate}
GapParts == {<<>>, <<"X">>, <<")">>}
OpenParts == {<<>>, <<"(">>}
TypeParts ==
    {<<>>, Str_Integer, <<" ">> \o Str_Buffer \o <<" ">>, Str_Frobnicate,
     Str_ArrayOf \o <<"(">> \o Str_Integer \o <<")">>}
CommaParts == {<<>>, <<",">>}
LengthParts ==
    {<<>>, <<"3">>, <<" ", "1", "0", " ">>, <<"0">>, <<"-", "1">>, <<"+", "3">>,
     <<"x">>, <<"2", ")", ",", "3">>}
CloseParts == {<<>>, <<")">>}
TailParts == {<<>>, <<"X">>}

TypeNameInputs ==
    {h \o g \o o \o t \o c \o n \o cl \o tl :
        h \in HeadParts, g \in GapParts, o \in OpenParts, t \in TypeParts,
        c \in CommaParts, n \in LengthParts, cl \in CloseParts, tl \in TailParts}

InitParse ==
    /\ MarshalOff
    /\ RpcOff
    /\ GenOff
    /\ p_pc = "parse"
    /\ p_value \in TypeNameInputs
    /\ p_result = NoVal

\* visit_str / visit_borrowed_str: self.parse_type(value)
VisitStr ==
    /\ p_pc = "parse"
    /\ p_result' = parse_type(p_value)
    /\ p_pc' = "done"
    /\ UNCHANGED p_value
    /\ UNCHANGED <<mvars, rvars, gvars>>

NextParse == VisitStr

SpecParse == InitParse /\ [][NextParse]_vars

----------------------------------------------------------------------------
(* Claim on the type-name grammar *)

PrimitiveNames ==
    {Str_void, Str_Nil, Str_Boolean, Str_Integer, Str_Float, Str_String,
     Str_Array, Str_Dictionary, Str_Buffer, Str_Window, Str_Tabpage, Str_Object}

IsNumeral(s) == s # <<>> /\ \A i \in 1..Len(s) : s[i] \in Digits

\* ArrayOf(<primitive>) or ArrayOf(<primitive>, <non-negative integer>),
\* blanks allowed around the primitive and the integer
InGrammar(s) ==
    \/ s \in PrimitiveNames
    \/ /\ Len(s) >= Len(Str_ArrayOf) + 2
       /\ SubSeq(s, 1, Len(Str_ArrayOf) + 1) = Str_ArrayOf \o <<"(">>
       /\ s[Len(s)] = ")"
       /\ LET inner == SubSeq(s, Len(Str_ArrayOf) + 2, Len(s) - 1)
          IN \/ trim(inner) \in PrimitiveNames
             \/ \E k \in 1..Len(inner) :
                   /\ inner[k] = ","
                   /\ trim(SubSeq(inner, 1, k - 1)) \in PrimitiveNames
                   /\ IsNumeral(trim(SubSeq(inner, k + 1, Len(inner))))

IsPrimitive(ty) == ty.t \notin {"ArrayOf", "ArrayOfLength"}

WellFormed(ty) ==
    /\ ty.t = "ArrayOf" => IsPrimitive(ty.elem)
    /\ ty.t = "ArrayOfLength" => IsPrimitive(ty.elem) /\ ty.num >= 0

\* C8: parse_type returns a type exactly for the names of the grammar, every
\* ArrayOf/ArrayOfLength wraps a primitive with N >= 0, and every other name
\* yields UnknownType carrying the original name, never a type, never a crash.
C8_ExactGrammar ==
    p_pc = "done" =>
        IF InGrammar(p_value)
        THEN p_result.r = "Ok" /\ WellFormed(p_result.ty)
        ELSE p_result = UnknownType(p_value)

----------------------------------------------------------------------------
(* Claims on the generator *)

Lines == g_out.lines
Calls == {j \in 1..Len(Lines) : Lines[j].k = "call"}

\* the block a line is in: the name on the last impl line above it
GroupOf(j) ==
    LET hs == {h \in 1..(j - 1) : Lines[h].k = "impl"}
    IN Lines[CHOOSE h \in hs : \A g \in hs : g <= h].name

\* the declarations emitted for the function named name
Emissions(name) == {j \in Calls : Lines[j].nvim_fn_name = name}

\* the declarations of the block called group, in output order
GroupCalls(group) ==
    LET idx == {j \in Calls : GroupOf(j) = group}
        RECURSIVE Collect(_)
        Collect(j) ==
            IF j > Len(Lines) THEN <<>>
            ELSE (IF j \in idx THEN <<Lines[j]>> ELSE <<>>) \o Collect(j + 1)
    IN Collect(1)

MatchingDecls(f) == {d \in g_api.types : starts_with(f.name, d.prefix)}

\* C1: two runs of the generator on the same API description leave the same
\* text, whatever order the types mapping is iterated in.
C1_Deterministic ==
    (g_pc = "done" /\ g_prev.some) => g_out.lines = g_prev.lines

\* C6 as stated: a deprecated function is emitted zero times and every
\* eligible function exactly once, whatever the declared prefixes.
C6_EmittedExactlyOnce ==
    g_pc = "done" =>
        \A i \in 1..Len(g_api.functions) :
            LET f == g_api.functions[i]
                n == Cardinality(Emissions(f.name))
            IN /\ f.deprecated_since.some => n = 0
               /\ (~f.deprecated_since.some /\ (~f.method \/ MatchingDecls(f) # {}))
                     => n = 1

\* C6 amended: in a run that completes, a deprecated function is emitted zero
\* times, a non-deprecated free function exactly once and in the NvimClient
\* block, and a non-deprecated method exactly once in the block of each
\* declared handle type whose prefix its name starts with, nowhere else.
C6_EmittedOncePerMatchingGroup ==
    g_pc = "done" =>
        \A i \in 1..Len(g_api.functions) :
            LET f == g_api.functions[i]
                em == Emissions(f.name)
            IN /\ f.deprecated_since.some => em = {}
               /\ (~f.deprecated_since.some /\ ~f.method) =>
                     /\ Cardinality(em) = 1
                     /\ \A j \in em : GroupOf(j) = "NvimClient"
               /\ (~f.deprecated_since.some /\ f.method) =>
                     /\ Cardinality(em) = Cardinality(MatchingDecls(f))
                     /\ \A d \in MatchingDecls(f) :
                           Cardinality({j \in em : GroupOf(j) = d.name}) = 1

\* a completed run with a deprecated function left out and a method that two
\* declared prefixes match emitted in both blocks
C6_Witness ==
    /\ g_pc = "done"
    /\ \E i \in 1..Len(g_api.functions) : g_api.functions[i].deprecated_since.some
    /\ \E i \in 1..Len(g_api.functions) :
          Cardinality(Emissions(g_api.functions[i].name)) = 2

\* C7: under a handle type with prefix p, the declarations are those of the
\* non-deprecated methods whose name starts with p, in input order; each has
\* the name with p removed once from the front as short name, the full name
\* as remote procedure name, and the parameters in order without the first.
C7_MethodDeclarations ==
    g_pc = "done" =>
        \A d \in g_api.types :
            LET fs == SelectSeq(g_api.functions,
                        LAMBDA f : /\ ~f.deprecated_since.some
                                   /\ f.method
                                   /\ starts_with(f.name, d.prefix))
                cs == GroupCalls(d.name)
            IN /\ Len(cs) = Len(fs)
               /\ \A k \in 1..Len(fs) :
                     /\ d.prefix \o cs[k].fn_name = fs[k].name
                     /\ cs[k].nvim_fn_name = fs[k].name
                     /\ cs[k].macro_name = "nvim_api_method"
                     /\ Len(cs[k].params) = Len(Tail(fs[k].parameters))
                     /\ \A i \in 1..Len(cs[k].params) :
                           /\ cs[k].params[i].name = fs[k].parameters[i + 1].name
                           /\ cs[k].params[i].ty =
                                 rust_owned_name(fs[k].parameters[i + 1].ty)
                     /\ cs[k].ret_ty = rust_owned_name(fs[k].return_type)

\* a completed run whose nvim_buf_ block holds two methods, one of them with
\* a parameter left after the receiver
C7_Witness ==
    /\ g_pc = "done"
    /\ \E d \in g_api.types :
          /\ d.prefix = Str_nvim_buf_
          /\ Len(GroupCalls(d.name)) = 2
          /\ \E k \in 1..2 : Len(GroupCalls(d.name)[k].params) = 1

\* C10: a run that aborts, on a type-name parse failure or on the emitter's
\* assertion, has written nothing: the output target does not exist.
C10_AllOrNothing ==
    g_pc \in {"failed", "panicked"} => (~g_out.exists /\ g_out.lines = <<>>)

====
